---------------------------- MODULE Spec2Model ----------------------------
(***************************************************************************)
(* Model of the image-captioning repository:                               *)
(*   - LoadFlickerData (download_data.ipynb): load_data, the vocabulary    *)
(*     and caption encoder of __preprocess_caption__, and __getitem__;     *)
(*   - Decoder / TransformerDecoderLayer / ImageClassificationModel        *)
(*     (model.ipynb): construction and the control flow of forward.        *)
(*                                                                         *)
(* A caption text is represented by the list of tokens self.tokenizer      *)
(* returns for it (the notebook passes lambda x: x.split()), token ids are *)
(* the 0-based positions of torchtext's legacy Vocab.itos, and tensors of  *)
(* the decoder are abstracted to the trace of operations applied to them.  *)
(***************************************************************************)
EXTENDS Integers, Sequences, FiniteSets

VARIABLES
    max_seq_length,   \* self.max_seq_length
    data,             \* self.data after load_data: list of <<image_id, record>>
    image_data,       \* argument of the __preprocess_caption__ call
    result,           \* what the last __preprocess_caption__ call returned
    call,             \* the arguments of the last __getitem__ call
    outcome,          \* how the last __getitem__ call ended
    vocab_builds,     \* number of Vocab constructions on this instance
    corpus_encodes,   \* number of passes of the encoding loop on this instance
    accesses,         \* number of __getitem__ calls on this instance
    num_layers,       \* Decoder.__init__ argument
    layers,           \* Decoder.layers (the ModuleList), by layer number
    fwd,              \* the forward call in flight, or its end
    pe,               \* PositionalEncoding's registered buffer 'pe'
    pos_fwd           \* the last PositionalEncoding.forward call

vars == <<max_seq_length, data, image_data, result, call, outcome, vocab_builds,
          corpus_encodes, accesses, num_layers, layers, fwd, pe, pos_fwd>>

datasetVars == <<max_seq_length, data, image_data, result, call, outcome,
                 vocab_builds, corpus_encodes, accesses>>

decoderVars == <<num_layers, layers, fwd>>

posVars == <<pe, pos_fwd>>

---------------------------------------------------------------------------
(* Bounds of the model.                                                    *)

MaxCaptionLen == 2      \* longest tokenized caption drawn
MaxSeqLen == 5          \* largest max_seq_length drawn
MaxAccesses == 3        \* __getitem__ calls followed on one instance
MaxLines == 2           \* most lines drawn for Flickr8k.token.txt
MaxLayers == 2          \* largest num_layers drawn
MaxTgtLen == 2          \* longest target sequence drawn
MaxPeLen == 4           \* largest max_len of a PositionalEncoding drawn
MaxHalfWidth == 2       \* largest d_model / 2 drawn
MaxPositions == 3       \* longest input (seq_len) of PositionalEncoding.forward
MaxBatch == 3           \* largest batch_size of PositionalEncoding.forward

---------------------------------------------------------------------------
(* Tokens and the vocabulary (torchtext legacy Vocab).                     *)

\* specials=['<unk>', '<pad>', '<bos>', '<eos>']
Specials == <<"<unk>", "<pad>", "<bos>", "<eos>">>

\* Words a caption of the drawn corpora is made of: two ordinary words and
\* two strings that are also the text of a special token.
Words == {"a", "dog", "<eos>", "<pad>"}

\* Python's string order on every token the model handles (code point order:
\* '<' sorts before the letters).
Alphabetical ==
    <<"<bos>", "<eos>", "<pad>", "<unk>", "a", "captions", "dog", "image_path">>

Rank(w) == CHOOSE i \in 1..Len(Alphabetical) : Alphabetical[i] = w

Range(s) == {s[i] : i \in 1..Len(s)}

RECURSIVE Flatten(_)
Flatten(ss) == IF ss = <<>> THEN <<>> ELSE Head(ss) \o Flatten(Tail(ss))

\* self.tokenizer(caption): a text is held as its whitespace-separated words,
\* so x.split() returns them in order.
tokenizer(caption) == caption

\* "for caption in captions": a list yields its elements, a dict its keys in
\* insertion order (the record of load_data has the columns captions,
\* image_path), each key being a one-word text.
Iterate(value) ==
    IF value.kind = "list" THEN value.items
    ELSE << <<"captions">>, <<"image_path">> >>

\* The captions the two loops of __preprocess_caption__ visit, in order.
RECURSIVE CaptionsOf(_)
CaptionsOf(imgs) ==
    IF imgs = <<>> THEN <<>>
    ELSE Iterate(Head(imgs)[2]) \o CaptionsOf(Tail(imgs))

\* counter.update(self.tokenizer(caption)) over all captions: token -> count.
Counter(imgs) ==
    LET all == Flatten([k \in 1..Len(CaptionsOf(imgs)) |->
                            tokenizer(CaptionsOf(imgs)[k])])
    IN  [w \in Range(all) |-> Cardinality({i \in 1..Len(all) : all[i] = w})]

\* sorted by frequency (descending), then alphabetically.
RECURSIVE SortWords(_, _)
SortWords(counter, S) ==
    IF S = {} THEN <<>>
    ELSE LET best == CHOOSE w \in S : \A v \in S :
                        \/ counter[w] > counter[v]
                        \/ counter[w] = counter[v] /\ Rank(w) <= Rank(v)
         IN  <<best>> \o SortWords(counter, S \ {best})

\* torchtext.vocab.Vocab(counter, specials=...): itos is the specials followed
\* by the counted tokens (the specials' own counts are deleted first).
Vocab(counter, specials) ==
    [itos |-> specials \o SortWords(counter, DOMAIN counter \ Range(specials))]

\* vocab[token]: stoi.get(token, stoi['<unk>']), ids being 0-based.
VocabIndex(vocab, token) ==
    (CHOOSE i \in 1..Len(vocab.itos) :
        /\ vocab.itos[i] = token
        /\ \A j \in 1..Len(vocab.itos) : vocab.itos[j] = token => j <= i) - 1

VocabGet(vocab, token) ==
    IF token \in Range(vocab.itos) THEN VocabIndex(vocab, token)
    ELSE VocabIndex(vocab, "<unk>")

---------------------------------------------------------------------------
(* The caption encoder: the body of the second loop of                     *)
(* __preprocess_caption__.                                                 *)

\* Python's lst[:k]
SliceTo(lst, k) ==
    LET n == IF k >= 0 THEN (IF k < Len(lst) THEN k ELSE Len(lst))
             ELSE (IF Len(lst) + k > 0 THEN Len(lst) + k ELSE 0)
    IN  SubSeq(lst, 1, n)

\* [x] * n
Repeat(x, n) == [i \in 1..(IF n > 0 THEN n ELSE 0) |-> x]

\* tokens = [vocab['<bos>']] + [vocab[t] for t in tokenizer(caption)] + [vocab['<eos>']]
WithSpecials(vocab, caption) ==
    <<VocabGet(vocab, "<bos>")>>
        \o [i \in 1..Len(tokenizer(caption)) |->
                VocabGet(vocab, tokenizer(caption)[i])]
        \o <<VocabGet(vocab, "<eos>")>>

\* the padding branch: tokens + [vocab['<pad>']] * (max_seq_length - len(tokens))
PadTokens(vocab, tokens, m) ==
    tokens \o Repeat(VocabGet(vocab, "<pad>"), m - Len(tokens))

\* Mutant of PadMask: mask[:pad_starts] = False, the real part cleared.
PadMask_Inverted(pad_starts, m) == [i \in 1..m |-> i > pad_starts]

\* mask = torch.ones(m); mask[pad_starts:] = False
PadMask(pad_starts, m) == [i \in 1..m |-> i <= pad_starts]

\* Mutant of TruncateTokens: tokens[:max_seq_length], no <eos> forced.
TruncateTokens_NoEos(vocab, tokens, m) == SliceTo(tokens, m)

\* Mutant of TruncateTokens: tokens[:max_seq_length] + [vocab['<eos>']].
TruncateTokens_OneTooLong(vocab, tokens, m) ==
    SliceTo(tokens, m) \o <<VocabGet(vocab, "<eos>")>>

\* the truncation branch: tokens[:max_seq_length - 1] + [vocab['<eos>']]
TruncateTokens(vocab, tokens, m) ==
    SliceTo(tokens, m - 1) \o <<VocabGet(vocab, "<eos>")>>

\* mask = torch.ones(m), left untouched by the truncation branch
OnesMask(m) == [i \in 1..m |-> TRUE]

\* One caption's (tokens, mask); torch.ones raises on a negative size.
EncodeCaption(vocab, caption, m) ==
    LET tokens == WithSpecials(vocab, caption)
    IN  IF m < 0 THEN [error |-> "RuntimeError", tokens |-> <<>>, mask |-> <<>>]
        ELSE IF Len(tokens) <= m
        THEN [error |-> "none",
              tokens |-> PadTokens(vocab, tokens, m),
              mask |-> PadMask(Len(tokens), m)]
        ELSE [error |-> "none",
              tokens |-> TruncateTokens(vocab, tokens, m),
              mask |-> OnesMask(m)]

\* __preprocess_caption__(image_data): the vocabulary, then every caption's
\* encoding; the first caption's torch.ones failure ends the call.
PreprocessCaption(imgs, m) ==
    LET vocab == Vocab(Counter(imgs), Specials)
        caps == CaptionsOf(imgs)
        enc == [k \in 1..Len(caps) |-> EncodeCaption(vocab, caps[k], m)]
    IN  IF \E k \in 1..Len(caps) : enc[k].error # "none"
        THEN [status |-> "RuntimeError", vocab |-> vocab, captions |-> caps,
              tokens_arrays |-> <<>>, attention_masks |-> <<>>]
        ELSE [status |-> "returned", vocab |-> vocab, captions |-> caps,
              tokens_arrays |-> [k \in 1..Len(caps) |-> enc[k].tokens],
              attention_masks |-> [k \in 1..Len(caps) |-> enc[k].mask]]

NoResult ==
    [status |-> "none", vocab |-> [itos |-> <<>>], captions |-> <<>>,
     tokens_arrays |-> <<>>, attention_masks |-> <<>>]


---------------------------------------------------------------------------
(* LoadFlickerData: __init__ / load_data and __getitem__.                  *)

ImageIds == {"img1", "img2"}

\* The texts the annotation files of the drawn datasets hold.
FileCaptions == {<<"a", "dog">>, <<"dog">>, <<"a", "<eos>">>}

\* A line "<image_id>.<ext>\t<caption>" after line.strip().split('\t'): the
\* file name as its dot-separated parts, and the caption text.
FileLines ==
    {<<(<<x, "jpg#0">>), c>> : x \in ImageIds, c \in FileCaptions}

SeqsUpTo(S, n) == UNION {[1..k -> S] : k \in 0..n}

\* image_id.split('.')[0]
ImageIdOf(line) == Head(line[1])

\* self.data[image_id].append(caption) for every line of both files, in
\* order: the image ids in order of first appearance.
RECURSIVE FirstSeen(_, _)
FirstSeen(lines, seen) ==
    IF lines = <<>> THEN <<>>
    ELSE IF ImageIdOf(Head(lines)) \in seen
         THEN FirstSeen(Tail(lines), seen)
         ELSE <<ImageIdOf(Head(lines))>>
                \o FirstSeen(Tail(lines), seen \cup {ImageIdOf(Head(lines))})

CaptionsAppended(lines, x) ==
    SelectSeq([k \in 1..Len(lines) |-> lines[k]], LAMBDA l : ImageIdOf(l) = x)

\* load_data: one record per image id, keeping x[0] of its caption list and
\* the path self.path + '/Images/' + image_id + '.jpg'.
LoadData(tokenLines, lemmaLines) ==
    LET lines == tokenLines \o lemmaLines
        ids == FirstSeen(lines, {})
    IN  [k \in 1..Len(ids) |->
            <<ids[k],
              [kind |-> "dict",
               captions |-> CaptionsAppended(lines, ids[k])[1][2],
               image_path |-> <<"Images", ids[k], "jpg">>]>>]

Keys(d) == {d[k][1] : k \in 1..Len(d)}

Lookup(d, key) == CHOOSE k \in 1..Len(d) : d[k][1] = key

NoCall == [item |-> [kind |-> "none", v |-> "none"], image_read |-> FALSE]

NoOutcome ==
    [status |-> "none", caption_tokens |-> <<>>, captions |-> <<>>,
     attention_mask |-> <<>>]

Raised(err) ==
    [status |-> err, caption_tokens |-> <<>>, captions |-> <<>>,
     attention_mask |-> <<>>]

\* The values __getitem__ is called with: image identifiers and positions.
Items ==
    {[kind |-> "str", v |-> x] : x \in ImageIds \cup {"img3"}}
        \cup {[kind |-> "int", v |-> n] : n \in 0..1}

\* __getitem__(item), given what __preprocess_caption__(self.data) returned
\* and whether cv2 could read the image. The keys of self.data are strings, so
\* self.data[item] raises KeyError on a position; tokens_arrays is a list, so
\* tokens_arrays[item] raises TypeError on a string.
GetItemOutcome(d, r, item, imageRead) ==
    IF r.status # "returned" THEN Raised(r.status)
    ELSE IF item.kind # "str" \/ item.v \notin Keys(d) THEN Raised("KeyError")
    ELSE IF ~imageRead THEN Raised("cv2.error")
    ELSE IF item.kind # "int" THEN Raised("TypeError")
    ELSE IF item.v >= Len(r.tokens_arrays) THEN Raised("IndexError")
    ELSE [status |-> "returned",
          caption_tokens |-> r.tokens_arrays[item.v + 1],
          captions |-> d[Lookup(d, item.v)][2].captions,
          attention_mask |-> r.attention_masks[item.v + 1]]

\* A __getitem__ call: it runs __preprocess_caption__ over self.data (a new
\* Vocab and a new pass of the encoding loop) before it looks anything up.
GetItem(item, imageRead) ==
    /\ accesses < MaxAccesses
    /\ image_data' = data
    /\ result' = PreprocessCaption(data, max_seq_length)
    /\ vocab_builds' = vocab_builds + 1
    /\ corpus_encodes' = corpus_encodes + 1
    /\ accesses' = accesses + 1
    /\ call' = [item |-> item, image_read |-> imageRead]
    /\ outcome' = GetItemOutcome(data, result', item, imageRead)
    /\ UNCHANGED <<max_seq_length, data>>
    /\ UNCHANGED decoderVars
    /\ UNCHANGED posVars

\* A direct call of __preprocess_caption__(image_data).
CallPreprocessCaption ==
    /\ result.status = "none"
    /\ result' = PreprocessCaption(image_data, max_seq_length)
    /\ vocab_builds' = vocab_builds + 1
    /\ corpus_encodes' = corpus_encodes + 1
    /\ UNCHANGED <<max_seq_length, data, image_data, call, outcome, accesses>>
    /\ UNCHANGED decoderVars
    /\ UNCHANGED posVars

SeqLengths == (0 - 1)..MaxSeqLen

\* No PositionalEncoding module in use.
PositionalIdle ==
    /\ pe = <<>>
    /\ pos_fwd = [pc |-> "idle"]

DecoderIdle ==
    /\ num_layers = 0
    /\ layers = <<>>
    /\ fwd = [pc |-> "idle"]

\* An instance whose __preprocess_caption__ is about to be called on a
\* corpus of two images with one caption each.
InitEncoder ==
    /\ max_seq_length \in SeqLengths
    /\ data = <<>>
    /\ image_data \in
          {<< <<"img1", [kind |-> "list", items |-> <<c1>>]>>,
              <<"img2", [kind |-> "list", items |-> <<c2>>]>> >> :
             c1 \in SeqsUpTo(Words, MaxCaptionLen),
             c2 \in SeqsUpTo(Words, MaxCaptionLen)}
    /\ result = NoResult
    /\ call = NoCall
    /\ outcome = NoOutcome
    /\ vocab_builds = 0
    /\ corpus_encodes = 0
    /\ accesses = 0
    /\ DecoderIdle
    /\ PositionalIdle

NextEncoder == CallPreprocessCaption

SpecEncoder == InitEncoder /\ [][NextEncoder]_vars

\* LoadFlickerData(dataset_path, max_seq_length, tokenizer): the state after
\* __init__, which stores its arguments unchecked and calls load_data.
InitDataset ==
    /\ max_seq_length \in SeqLengths
    /\ data \in {LoadData(t, l) : t \in SeqsUpTo(FileLines, MaxLines),
                                  l \in SeqsUpTo(FileLines, 1)}
    /\ image_data = <<>>
    /\ result = NoResult
    /\ call = NoCall
    /\ outcome = NoOutcome
    /\ vocab_builds = 0
    /\ corpus_encodes = 0
    /\ accesses = 0
    /\ DecoderIdle
    /\ PositionalIdle

NextDataset == \E item \in Items, imageRead \in BOOLEAN : GetItem(item, imageRead)

SpecDataset == InitDataset /\ [][NextDataset]_vars


---------------------------------------------------------------------------
(* Decoder, TransformerDecoderLayer and ImageClassificationModel.forward.  *)
(* A target tensor is held as its length, its padding mask and the list of *)
(* layers that have transformed it.                                        *)

\* "tgt, masked_self_attn_weights, cross_attn_weights = layer(...)"
UnpackTargets == 3

None == [kind |-> "None"]

\* torch.nn.ModuleList([TransformerDecoderLayer(...) for _ in range(num_layers)])
DecoderLayers(n) == [i \in 1..(IF n > 0 THEN n ELSE 0) |-> i]

\* MultiheadAttention's attn_mask: with None every key is attendable, with a
\* boolean mask the positions set to True are not.
Attendable(attn_mask, i, j) ==
    attn_mask.kind = "None" \/ ~attn_mask.m[i][j]

\* TransformerDecoderLayer.forward: self-attention with attn_mask=tgt_mask,
\* cross-attention over memory with attn_mask=memory_mask, the feed-forward
\* block, and the return (tgt, masked_self_attn_weights).
LayerForward(layer, tgt, memory, tgt_mask, memory_mask) ==
    [self_attn |-> [layer |-> layer, query |-> tgt, attn_mask |-> tgt_mask],
     cross_attn |-> [layer |-> layer, memory |-> memory,
                     attn_mask |-> memory_mask],
     ret |-> <<[tgt EXCEPT !.applied = @ \o <<layer>>],
               [weights |-> "masked_self_attn", layer |-> layer]>>]

\* The loop of Decoder.forward: each layer's return is unpacked into
\* UnpackTargets names, which raises ValueError on a tuple of another size.
RECURSIVE RunLayers(_, _, _, _, _, _)
RunLayers(ls, tgt, memory, tgt_mask, memory_mask, calls) ==
    IF ls = <<>>
    THEN [status |-> "ok", tgt |-> tgt, calls |-> calls]
    ELSE LET r == LayerForward(Head(ls), tgt, memory, tgt_mask, memory_mask)
             made == calls \o <<[self_attn |-> r.self_attn,
                                 cross_attn |-> r.cross_attn]>>
         IN  IF Len(r.ret) # UnpackTargets
             THEN [status |-> "ValueError", tgt |-> tgt, calls |-> made]
             ELSE RunLayers(Tail(ls), r.ret[1], memory, tgt_mask,
                            memory_mask, made)

\* Decoder.forward: the layers, then self.output_projection(tgt).
DecoderForward(ls, tgt, memory, tgt_mask, memory_mask) ==
    LET r == RunLayers(ls, tgt, memory, tgt_mask, memory_mask, <<>>)
    IN  IF r.status = "ok"
        THEN [pc |-> "returned", input |-> tgt, memory |-> memory,
              tgt_mask |-> tgt_mask, calls |-> r.calls, projections |-> 1,
              logits |-> <<r.tgt>>]
        ELSE [pc |-> r.status, input |-> tgt, memory |-> memory,
              tgt_mask |-> tgt_mask, calls |-> r.calls, projections |-> 0,
              logits |-> <<>>]

\* The boolean [seq_len, seq_len] masks a caller can pass, and None.
TgtMasks(n) ==
    {None} \cup {[kind |-> "mask", m |-> mm] : mm \in [1..n -> [1..n -> BOOLEAN]]}

\* The padding masks the caption encoder produces for n positions.
PaddingMasks(n) == {[i \in 1..n |-> i <= real] : real \in 1..n}

Targets ==
    UNION {{[seq_len |-> n, padding |-> p, applied |-> <<>>] :
                p \in PaddingMasks(n)} : n \in 1..MaxTgtLen}

\* ImageClassificationModel.forward(image, tgt, tgt_mask=None):
\* image_features = self.encoder(image), then
\* self.decoder(tgt, image_features, tgt_mask=tgt_mask).
ModelForward(image, tgt, tgt_mask) ==
    /\ fwd' = DecoderForward(layers, tgt, [features_of |-> image], tgt_mask, None)
    /\ UNCHANGED <<num_layers, layers>>
    /\ UNCHANGED datasetVars
    /\ UNCHANGED posVars

\* Decoder(vocab_size, d_model, n_head, d_ffn, num_layers, ...): the state
\* after __init__, which builds range(num_layers) layers and checks nothing.
InitDecoder ==
    /\ num_layers \in (0 - 1)..MaxLayers
    /\ layers = DecoderLayers(num_layers)
    /\ fwd = [pc |-> "idle"]
    /\ max_seq_length = MaxSeqLen
    /\ data = <<>>
    /\ image_data = <<>>
    /\ result = NoResult
    /\ call = NoCall
    /\ outcome = NoOutcome
    /\ vocab_builds = 0
    /\ corpus_encodes = 0
    /\ accesses = 0
    /\ PositionalIdle

NextDecoder ==
    \E tgt \in Targets : \E tgt_mask \in TgtMasks(tgt.seq_len) :
        ModelForward("image", tgt, tgt_mask)

SpecDecoder == InitDecoder /\ [][NextDecoder]_vars

---------------------------------------------------------------------------
(* PositionalEncoding.  Positions, batch indices and features are 0-based  *)
(* as in the code (index k is held at k + 1); a sine or cosine value is    *)
(* held as the term that denotes it.                                       *)

\* pe[pos, 0::2] = sin(position * div_term), pe[pos, 1::2] = cos(...), with
\* div_term[i] = exp(2i * (-log(10000) / d_model)). At position 0 the angle
\* is 0 whatever i is: sin gives 0 and cos gives 1 in every column.
EncodingValue(pos, f) ==
    [fn |-> IF f % 2 = 0 THEN "sin" ELSE "cos",
     position |-> pos,
     i |-> IF pos = 0 THEN 0 ELSE f \div 2]

\* PositionalEncoding.__init__: the buffer pe of shape [1, max_len, d_model]
\* (the leading dimension of size 1 is left implicit).
PositionalTable(d_model, max_len) ==
    [p \in 1..max_len |-> [f \in 1..d_model |-> EncodingValue(p - 1, f - 1)]]

\* self.pe[:, :n]: a slice along the second dimension, the positions.
PeSlice(table, n) == SliceTo(table, n)

\* x + self.pe[:, :x.size(1)] for x of shape [seq_len, batch_size, d_model]:
\* the slice has shape [1, n, d_model] with n = min(batch_size, max_len) and
\* is broadcast against x, its second dimension lining up with the batch
\* dimension of x; sizes that are neither equal nor 1 raise RuntimeError.
PositionalForwardResult(table, x) ==
    LET sl == PeSlice(table, x.batch_size)
    IN  IF Len(sl) # x.batch_size /\ Len(sl) # 1
        THEN [pc |-> "RuntimeError", x |-> x, added |-> <<>>]
        ELSE [pc |-> "returned", x |-> x,
              added |-> [p \in 1..x.seq_len |-> [b \in 1..x.batch_size |->
                            [f \in 1..x.d_model |->
                                sl[IF Len(sl) = 1 THEN 1 ELSE b][f]]]]]

\* The embedded sequences forward is called with: the documented shape
\* [seq_len, batch_size, d_model] and what they hold.
PositionalInputs(d_model) ==
    {[seq_len |-> s, batch_size |-> b, d_model |-> d_model, content |-> c] :
        s \in 1..MaxPositions, b \in 1..MaxBatch,
        c \in {"zeros", "embedding_a", "embedding_b"}}

\* PositionalEncoding.forward(x); the dropout that follows the addition is
\* the identity in evaluation mode.
PositionalForward(x) ==
    /\ pos_fwd' = PositionalForwardResult(pe, x)
    /\ UNCHANGED pe
    /\ UNCHANGED datasetVars
    /\ UNCHANGED decoderVars

\* PositionalEncoding(d_model, dropout, max_len): the state after __init__,
\* for the even widths (an odd d_model leaves the cosine columns one short).
InitPositional ==
    /\ pe \in {PositionalTable(2 * h, n) : h \in 1..MaxHalfWidth, n \in 1..MaxPeLen}
    /\ pos_fwd = [pc |-> "idle"]
    /\ max_seq_length = MaxSeqLen
    /\ data = <<>>
    /\ image_data = <<>>
    /\ result = NoResult
    /\ call = NoCall
    /\ outcome = NoOutcome
    /\ vocab_builds = 0
    /\ corpus_encodes = 0
    /\ accesses = 0
    /\ DecoderIdle

NextPositional == \E x \in PositionalInputs(Len(pe[1])) : PositionalForward(x)

SpecPositional == InitPositional /\ [][NextPositional]_vars

---------------------------------------------------------------------------
(* Properties of the caption encoder, checked under SpecEncoder.           *)

\* The ids Vocab gives the specials: their positions in specials=[...].
PadId == 1
BosId == 2
EosId == 3

Returned == result.status = "returned"

Encoded == 1..Len(result.tokens_arrays)

\* s = [<bos>] + ids(tokens) + [<eos>] of the k-th caption
RefSeq(k) ==
    [i \in 1..(Len(tokenizer(result.captions[k])) + 2) |->
        IF i = 1 THEN BosId
        ELSE IF i = Len(tokenizer(result.captions[k])) + 2 THEN EosId
        ELSE VocabGet(result.vocab, tokenizer(result.captions[k])[i - 1])]

Truncated(k) == Len(RefSeq(k)) > max_seq_length

Count(seq, x) == Cardinality({i \in 1..Len(seq) : seq[i] = x})

\* C1: for max_seq_length >= 2 every caption is encoded as the reference
\* says: s padded with <pad> to max_seq_length and a mask true on exactly the
\* positions of s when s fits, otherwise the first max_seq_length - 1 ids of
\* s followed by <eos> and a mask true everywhere.
C1_EncoderMatchesReference ==
    (Returned /\ max_seq_length >= 2) =>
        \A k \in Encoded :
            /\ result.tokens_arrays[k] =
                 [i \in 1..max_seq_length |->
                    IF Truncated(k)
                    THEN (IF i < max_seq_length THEN RefSeq(k)[i] ELSE EosId)
                    ELSE (IF i <= Len(RefSeq(k)) THEN RefSeq(k)[i] ELSE PadId)]
            /\ result.attention_masks[k] =
                 [i \in 1..max_seq_length |->
                    Truncated(k) \/ i <= Len(RefSeq(k))]

\* A call that truncated one caption and padded the other.
C1_Witness ==
    /\ Returned /\ max_seq_length >= 2
    /\ \E k \in Encoded : Truncated(k)
    /\ \E k \in Encoded : Len(RefSeq(k)) < max_seq_length

\* C2: for max_seq_length >= 2 every id sequence and every mask has length
\* exactly max_seq_length, for the empty caption and for captions over the
\* limit too.
C2_FixedLength ==
    (Returned /\ max_seq_length >= 2) =>
        \A k \in Encoded :
            /\ Len(result.tokens_arrays[k]) = max_seq_length
            /\ Len(result.attention_masks[k]) = max_seq_length

\* A call that encoded the empty caption and a caption over the limit.
C2_Witness ==
    /\ Returned /\ max_seq_length >= 2
    /\ \E k \in Encoded : result.captions[k] = <<>>
    /\ \E k \in Encoded : Len(result.captions[k]) + 2 > max_seq_length

C4_ExactlyOneEos ==
    (Returned /\ max_seq_length >= 2) =>
        \A k \in Encoded : Count(result.tokens_arrays[k], EosId) = 1

\* id -> token through the vocabulary, then the specials removed
DecodeStripped(ids) ==
    SelectSeq([i \in 1..Len(ids) |-> result.vocab.itos[ids[i] + 1]],
              LAMBDA t : t \notin Range(Specials))

\* C5: decoding the ids and stripping the special tokens gives back the
\* caption's tokens, or their first max_seq_length - 2 when truncated.
C5_RoundTrip ==
    (Returned /\ max_seq_length >= 2) =>
        \A k \in Encoded :
            DecodeStripped(result.tokens_arrays[k]) =
                IF Truncated(k)
                THEN SubSeq(tokenizer(result.captions[k]), 1, max_seq_length - 2)
                ELSE tokenizer(result.captions[k])

\* C6: with max_seq_length < 2 the call fails (with whatever error stands
\* for InvalidInput) and returns no id sequence and no mask.
C6_SmallLengthRejected ==
    (max_seq_length < 2 /\ result.status # "none") =>
        /\ result.status # "returned"
        /\ result.tokens_arrays = <<>>
        /\ result.attention_masks = <<>>

---------------------------------------------------------------------------
(* Properties of sample access, checked under SpecDataset.                 *)

\* C7: over any sequence of __getitem__ calls (on a loaded, non-empty
\* dataset with a valid max_seq_length) the vocabulary is built at most once
\* and the corpus is encoded at most once.
C7_BuiltAtMostOnce ==
    (data # <<>> /\ max_seq_length >= 2) =>
        /\ vocab_builds <= 1
        /\ corpus_encodes <= 1


\* The corpus the samples are meant to be encoded against: every image of
\* self.data with its retained caption text.
RetainedCorpus ==
    [k \in 1..Len(data) |->
        <<data[k][1], [kind |-> "list", items |-> <<data[k][2].captions>>]>>]

\* C12: after load_data, __getitem__ of an image identifier of the dataset
\* returns, and its caption_tokens and attention_mask are the encoding of
\* that image's retained caption (the returned 'captions') under the
\* vocabulary of all retained captions.
C12_SampleIsOwnCaption ==
    (/\ accesses > 0
     /\ max_seq_length >= 2
     /\ call.item.kind = "str"
     /\ call.item.v \in Keys(data)
     /\ call.image_read) =>
        /\ outcome.status = "returned"
        /\ outcome.captions = data[Lookup(data, call.item.v)][2].captions
        /\ LET enc == EncodeCaption(Vocab(Counter(RetainedCorpus), Specials),
                                    outcome.captions, max_seq_length)
           IN  /\ outcome.caption_tokens = enc.tokens
               /\ outcome.attention_mask = enc.mask

---------------------------------------------------------------------------
(* Properties of the decoder, checked under SpecDecoder.                   *)

Ended == fwd.pc # "idle"

\* C8: with num_layers < 1 no forward call returns logits or reaches the
\* output projection.
C8_NoLayersRejected ==
    (num_layers < 1 /\ Ended) =>
        /\ fwd.pc # "returned"
        /\ fwd.projections = 0

\* C9: with num_layers >= 1 a forward call runs layers 1..num_layers in
\* order, each on the previous layer's output and the same memory, applies
\* the output projection once and returns the logits.
C9_LayersInOrder ==
    (num_layers >= 1 /\ Ended) =>
        /\ fwd.pc = "returned"
        /\ Len(fwd.calls) = num_layers
        /\ \A i \in 1..Len(fwd.calls) :
              /\ fwd.calls[i].self_attn.layer = i
              /\ fwd.calls[i].self_attn.query.applied = [k \in 1..(i - 1) |-> k]
              /\ fwd.calls[i].cross_attn.memory = fwd.memory
        /\ fwd.projections = 1
        /\ fwd.logits = <<[fwd.input EXCEPT !.applied = [k \in 1..num_layers |-> k]]>>

\* C10: every self-attention call of a forward pass is made with a mask
\* that leaves no later position and no padding position attendable.
C10_CausalAndPaddingMasked ==
    Ended =>
        \A c \in 1..Len(fwd.calls) :
            \A i, j \in 1..fwd.input.seq_len :
                (j > i \/ ~fwd.input.padding[j]) =>
                    ~Attendable(fwd.calls[c].self_attn.attn_mask, i, j)


---------------------------------------------------------------------------
(* Properties of the positional encoding, checked under SpecPositional.    *)

\* C11: for an input of shape [seq_len, batch_size, d_model] within max_len
\* the signal added to element (p, b, f) is the encoding of position p and
\* feature f, the same for every batch index b.
C11_SignalByPosition ==
    (pos_fwd.pc # "idle" /\ pos_fwd.x.seq_len <= Len(pe)) =>
        /\ pos_fwd.pc = "returned"
        /\ \A p \in 1..pos_fwd.x.seq_len : \A b \in 1..pos_fwd.x.batch_size :
              \A f \in 1..pos_fwd.x.d_model :
                 pos_fwd.added[p][b][f] = EncodingValue(p - 1, f - 1)

===========================================================================
